---- MODULE Spec2Model ----
(***************************************************************************)
(* Verification model of the CompanyAssistant sales agent:                 *)
(*   - the LangGraph agent control loop of src/src/agent/graph.py          *)
(*     (agent node, should_continue router, ToolNode over the catalog),    *)
(*   - the failure behaviour of the catalog tools at their boundary,       *)
(*   - the lead store (SQLite ApexCRM and SupabaseCRM),                    *)
(*   - the helpers of the lead and calendar tools,                         *)
(*   - the retrieval tool of src/src/rag/retriever.py and the lazily       *)
(*     constructed module globals behind get_crm, get_rag_system and       *)
(*     get_calendar_creator.                                               *)
(* Lead scores are held in tenths (8.0 is 80).  Timestamps are ticks of a  *)
(* logical clock.                                                          *)
(***************************************************************************)
EXTENDS Integers, Sequences, FiniteSets, TLC

VARIABLES
    messages,     \* AgentState["messages"]: the conversation, a sequence
    contexts,     \* AgentState["lead_context"] / ["meeting_context"]
    pc,           \* node the graph runs next: agent, tools, END, raised
    reasonCount,  \* model invocations made in this turn
    nextCallId,   \* next fresh tool-call id handed out by the model API
    executed,     \* log of tool invocations of this turn, in execution order
    llmFailed,    \* whether model_llm.invoke raised in this turn
    initLen,      \* length of the conversation the turn started with
    backend,      \* lead store in use: sqlite (ApexCRM) or supabase
    leads,        \* rows of the leads table
    nextId,       \* next id the store assigns
    clock,        \* logical time; every timestamped store call ticks it
    lastResult,   \* what the last store call returned, or "raised"
    statusGiven,  \* whether any caller has supplied an explicit status
    statusCall,   \* last _score_to_status call: its argument and result
    fn,           \* helper function under call: its name, or "none"
    args,         \* what the helper is called with, and what the services
                  \* it calls answer
    result,       \* what the call returned or raised; "pending" before it
    events,       \* events of the Google calendar
    sheet,        \* rows of the leads worksheet
    trace,        \* what the last tool call called, in order
    instance,     \* the module global an accessor caches its object in:
                  \* _crm, _rag_system or _calendar_creator
    constructed,  \* how many times the constructor of that object has run
    session       \* per session: where its accessor call stands, what it
                  \* has constructed and what it was handed

agentVars ==
    <<messages, contexts, pc, reasonCount, nextCallId, executed, llmFailed, initLen>>

crmVars ==
    <<backend, leads, nextId, clock, lastResult, statusGiven, statusCall>>

calendarVars ==
    <<events, sheet, trace>>

helperVars ==
    <<fn, args, result, events, sheet, trace>>

singletonVars ==
    <<instance, constructed, session>>

vars ==
    <<messages, contexts, pc, reasonCount, nextCallId, executed, llmFailed, initLen,
      backend, leads, nextId, clock, lastResult, statusGiven, statusCall,
      fn, args, result, events, sheet, trace,
      instance, constructed, session>>

\* ------------------------------------------------------------------ bounds

\* Model invocations explored per turn in the main specification.
MaxReason ==
    2

\* Tool calls one model response may carry.
MaxCalls ==
    2

\* Model invocations explored per turn in the loop specification.
LoopDepth ==
    11

\* Store calls explored in the lead-store specification.
MaxOps ==
    3

\* Leads created in the lead-store specification.
MaxLeads ==
    2

\* Fields one update_lead call names.
MaxKwargs ==
    2

\* How far beyond the 0.0-10.0 range the scores given to _score_to_status go.
ScoreMargin ==
    10

\* Characters of the text a model gives as a lead score.
MaxText ==
    3

\* Reference dates of parse_datetime: day 0 is Monday 2024-01-01.
MaxRefDay ==
    13

\* Words of a duration text.
MaxTokens ==
    4

\* Busy intervals one answer of the calendar service lists.
MaxBusy ==
    2

\* Meetings booked in the scheduling specification.
MaxBookings ==
    2

\* The top of the lead score range, 10.0.
MaxScore ==
    100

\* The score of the default assessment, 5.0.
DefaultScore ==
    50

Last(s) ==
    s[Len(s)]

IsPrefix(s, t) ==
    /\ Len(s) <= Len(t)
    /\ \A i \in 1..Len(s) : s[i] = t[i]

\* ------------------------------------------------------------ tool catalog

\* The catalog bound to the model and handed to the ToolNode.
tools ==
    { "retriever_tool",
      "auto_capture_meeting_lead",
      "store_lead_to_sheet",
      "capture_lead_from_conversation",
      "schedule_by_natural_with_lead_capture",
      "create_google_calendar_meeting",
      "create_google_meet_meeting",
      "list_upcoming_google_calendar_events",
      "parse_datetime",
      "parse_duration" }

\* What an invocation of each tool can end in at the tool's own boundary:
\* "text" (a string result, error texts included) or "raised" (an exception
\* leaves the decorated function).

\* The whole body is inside try/except Exception, which returns a message.
retriever_tool_outcomes ==
    {"text"}

\* The whole body is inside try/except Exception.
auto_capture_meeting_lead_outcomes ==
    {"text"}

\* The whole body is inside try/except Exception.
store_lead_to_sheet_outcomes ==
    {"text"}

\* Only the model call and json.loads are guarded; extracted.get(...) on a
\* JSON value that is not an object is outside the try block.
capture_lead_from_conversation_outcomes ==
    {"text", "raised"}

\* The whole body is inside try/except Exception.
schedule_by_natural_with_lead_capture_outcomes ==
    {"text"}

create_google_calendar_meeting_outcomes ==
    {"text"}

create_google_meet_meeting_outcomes ==
    {"text"}

list_upcoming_google_calendar_events_outcomes ==
    {"text"}

\* No try/except: llm_parse_datetime raises ValueError on a reply that is
\* not ISO-8601, and the model call itself may raise.
parse_datetime_outcomes ==
    {"text", "raised"}

\* No try/except: raise ValueError when no pattern matches.
parse_duration_outcomes ==
    {"text", "raised"}

ToolOutcomes(t) ==
    CASE t = "retriever_tool" -> retriever_tool_outcomes
      [] t = "auto_capture_meeting_lead" -> auto_capture_meeting_lead_outcomes
      [] t = "store_lead_to_sheet" -> store_lead_to_sheet_outcomes
      [] t = "capture_lead_from_conversation" -> capture_lead_from_conversation_outcomes
      [] t = "schedule_by_natural_with_lead_capture" ->
            schedule_by_natural_with_lead_capture_outcomes
      [] t = "create_google_calendar_meeting" -> create_google_calendar_meeting_outcomes
      [] t = "create_google_meet_meeting" -> create_google_meet_meeting_outcomes
      [] t = "list_upcoming_google_calendar_events" ->
            list_upcoming_google_calendar_events_outcomes
      [] t = "parse_datetime" -> parse_datetime_outcomes
      [] t = "parse_duration" -> parse_duration_outcomes

\* Tools the modelled language model asks for in the main specification: one
\* that returns text whatever happens, and one that can raise.
CalledTools ==
    {"retriever_tool", "parse_duration"}

\* Tools the modelled language model asks for in the loop specification.
LoopTools ==
    {"retriever_tool", "list_upcoming_google_calendar_events"}

\* ---------------------------------------------------------------- messages

HumanMessage ==
    [role |-> "user", tool_calls |-> <<>>, tool_call_id |-> 0, name |-> "", status |-> ""]

\* An assistant message asking for the tools `names`, its calls numbered from `first`.
AIMessage(names, first) ==
    [role |-> "assistant",
     tool_calls |-> [i \in 1..Len(names) |-> [id |-> first + i - 1, name |-> names[i]]],
     tool_call_id |-> 0, name |-> "", status |-> ""]

\* ToolMessage without the correlation to its call.
ToolMessageNoId(call, outcome) ==
    [role |-> "tool", tool_calls |-> <<>>, tool_call_id |-> 0, name |-> call.name,
     status |-> IF outcome = "raised" THEN "error" ELSE "success"]

\* The ToolNode's answer to one call: the tool's text, or, for a tool that
\* raised, the error text the node puts in its place (handle_tool_errors).
ToolMessage(call, outcome) ==
    [role |-> "tool", tool_calls |-> <<>>, tool_call_id |-> call.id, name |-> call.name,
     status |-> IF outcome = "raised" THEN "error" ELSE "success"]

\* A messages key without a reducer: the node's return value overwrites it.
overwrite_messages(left, right) ==
    right

\* The reducer of AgentState.messages: a node's messages are appended (the
\* ids of new messages are fresh, so none replaces an earlier one).
add_messages(left, right) ==
    left \o right

\* ------------------------------------------------------------- agent graph

\* should_continue looking at the first message instead of the last.
should_continue_first(msgs) ==
    IF Head(msgs).tool_calls = <<>> THEN "end" ELSE "continue"

should_continue(msgs) ==
    IF Last(msgs).tool_calls = <<>> THEN "end" ELSE "continue"

\* The conditional edge out of the agent node.
RouteAfterAgent(msgs) ==
    IF should_continue(msgs) = "continue" THEN "tools" ELSE "END"

\* model_call when model_llm.invoke returns a response asking for `names`.
model_call(names) ==
    /\ pc = "agent"
    /\ messages' = add_messages(messages, <<AIMessage(names, nextCallId)>>)
    /\ contexts' = [k \in DOMAIN contexts |->
                        IF contexts[k] = "absent" THEN "empty" ELSE contexts[k]]
    /\ pc' = RouteAfterAgent(messages')
    /\ reasonCount' = reasonCount + 1
    /\ nextCallId' = nextCallId + Len(names)
    /\ UNCHANGED <<executed, llmFailed, initLen>>

\* model_call when model_llm.invoke raises: nothing catches it, the
\* exception leaves graph.invoke and no state is returned.
model_call_raises ==
    /\ pc = "agent"
    /\ llmFailed' = TRUE
    /\ pc' = "raised"
    /\ reasonCount' = reasonCount + 1
    /\ UNCHANGED <<messages, contexts, nextCallId, executed, initLen>>

\* A tools node that answers only the first requested call.
ToolResultsFirstOnly(calls, outs) ==
    <<ToolMessage(calls[1], outs[1])>>

\* The messages the ToolNode returns for `calls` with outcomes `outs`.
ToolResults(calls, outs) ==
    [i \in 1..Len(calls) |-> ToolMessage(calls[i], outs[i])]

\* The invocations the ToolNode makes for `calls`.
ToolRuns(calls, outs) ==
    [i \in 1..Len(calls) |-> [id |-> calls[i].id, name |-> calls[i].name, outcome |-> outs[i]]]

\* The tools node: runs the calls of the last message, then the edge
\* tools -> agent.
tool_node ==
    /\ pc = "tools"
    /\ LET calls == Last(messages).tool_calls
       IN  \E outs \in [1..Len(calls) -> {"text", "raised"}] :
             /\ \A i \in 1..Len(calls) : outs[i] \in ToolOutcomes(calls[i].name)
             /\ messages' = add_messages(messages, ToolResults(calls, outs))
             /\ executed' = executed \o ToolRuns(calls, outs)
    /\ pc' = "agent"
    /\ UNCHANGED <<contexts, reasonCount, nextCallId, llmFailed, initLen>>

\* Responses of the language model: up to MaxCalls calls of the tools in ts.
Responses(ts) ==
    UNION { [1..n -> (ts \cap tools)] : n \in 0..MaxCalls }

\* Conversations a turn starts from: a first user message, or a user message
\* after an earlier plain exchange.
InitialConversations ==
    { <<HumanMessage>>, <<HumanMessage, AIMessage(<<>>, 1), HumanMessage>> }

\* --------------------------------------------------------------- lead store

\* Columns of the leads table of the SQLite store.
SqliteColumns ==
    { "id", "name", "email", "company", "interest", "lead_score", "status",
      "qualification_notes", "meeting_id", "meeting_time", "source",
      "created_at", "updated_at" }

\* Columns the Supabase store inserts: the same and meeting_link.
SupabaseColumns ==
    SqliteColumns \cup {"meeting_link"}

Columns(b) ==
    IF b = "sqlite" THEN SqliteColumns ELSE SupabaseColumns

\* ApexCRM._score_to_status with the Hot threshold exclusive.
ApexScoreToStatusExclusive(score) ==
    IF score > 80 THEN "fire Hot"
    ELSE IF score >= 60 THEN "star Qualified"
    ELSE IF score >= 40 THEN "clipboard Nurture"
    ELSE "memo Cold"

\* ApexCRM._score_to_status; the emoji in front of each label is spelled out.
ApexScoreToStatus(score) ==
    IF score >= 80 THEN "fire Hot"
    ELSE IF score >= 60 THEN "star Qualified"
    ELSE IF score >= 40 THEN "clipboard Nurture"
    ELSE "memo Cold"

\* SupabaseCRM._score_to_status: the Cold label carries another emoji (ice),
\* and the file holds every emoji as the characters its UTF-8 bytes give
\* when read in a single-byte code page, so that no label is the same
\* string as the label of ApexCRM.
SupabaseScoreToStatus(score) ==
    IF score >= 80 THEN "garbled fire Hot"
    ELSE IF score >= 60 THEN "garbled star Qualified"
    ELSE IF score >= 40 THEN "garbled clipboard Nurture"
    ELSE "garbled ice Cold"

ScoreToStatus(b, score) ==
    IF b = "sqlite" THEN ApexScoreToStatus(score) ELSE SupabaseScoreToStatus(score)

\* Python's None given as the status argument.
NoneStatus ==
    "None"

Returned(kind, value) ==
    [kind |-> kind, value |-> value]

\* An insert that leaves the meeting columns at their defaults.
LeadRowWithoutMeeting(b, id, a, now) ==
    [c \in Columns(b) |->
        CASE c = "id" -> id
          [] c = "status" ->
                IF a.status = NoneStatus THEN ScoreToStatus(b, a.lead_score) ELSE a.status
          [] c \in {"created_at", "updated_at"} -> now
          [] c \in {"meeting_id", "meeting_time"} -> ""
          [] OTHER -> a[c]]

\* The row create_lead inserts for the arguments a, with the id the store
\* assigns and the time of the call.
LeadRow(b, id, a, now) ==
    [c \in Columns(b) |->
        CASE c = "id" -> id
          [] c = "status" ->
                IF a.status = NoneStatus THEN ScoreToStatus(b, a.lead_score) ELSE a.status
          [] c \in {"created_at", "updated_at"} -> now
          [] OTHER -> a[c]]

create_lead(a) ==
    /\ clock < MaxOps
    /\ Cardinality(leads) < MaxLeads
    /\ clock' = clock + 1
    /\ leads' = leads \cup {LeadRow(backend, nextId, a, clock')}
    /\ nextId' = nextId + 1
    /\ lastResult' = IF backend = "sqlite"
                     THEN Returned("id", nextId)
                     ELSE Returned("row", LeadRow(backend, nextId, a, clock'))
    /\ statusGiven' = (statusGiven \/ a.status # NoneStatus)
    /\ UNCHANGED <<backend, statusCall>>

\* An update that rewrites the whole row, resetting the fields not named.
OverwriteRows(rows, lead_id, kw) ==
    { IF l.id = lead_id
      THEN [c \in DOMAIN l |->
                IF c \in DOMAIN kw THEN kw[c]
                ELSE IF c \in {"id", "created_at"} THEN l[c]
                ELSE IF c = "lead_score" THEN 0
                ELSE ""]
      ELSE l : l \in rows }

\* UPDATE leads SET <the keys of kw> WHERE id = lead_id.
UpdateRows(rows, lead_id, kw) ==
    { IF l.id = lead_id
      THEN [c \in DOMAIN l |-> IF c \in DOMAIN kw THEN kw[c] ELSE l[c]]
      ELSE l : l \in rows }

\* kwargs['updated_at'] = now
WithUpdatedAt(kwargs, now) ==
    [k \in DOMAIN kwargs \cup {"updated_at"} |->
        IF k = "updated_at" THEN now ELSE kwargs[k]]

update_lead(lead_id, kwargs) ==
    /\ UNCHANGED <<backend, nextId, statusCall>>
    /\ statusGiven' = (statusGiven \/ "status" \in DOMAIN kwargs)
    /\ IF DOMAIN kwargs = {}
       THEN /\ lastResult' = Returned("bool", FALSE)
            /\ UNCHANGED <<leads, clock>>
       ELSE /\ clock < MaxOps
            /\ clock' = clock + 1
            /\ LET kw == WithUpdatedAt(kwargs, clock')
               IN  IF DOMAIN kw \subseteq Columns(backend)
                   THEN /\ leads' = UpdateRows(leads, lead_id, kw)
                        /\ lastResult' = Returned("bool", \E l \in leads : l.id = lead_id)
                   ELSE \* a key that is no column: the statement fails; SQLite
                        \* rolls back and re-raises, Supabase returns False
                        /\ leads' = leads
                        /\ lastResult' = IF backend = "sqlite"
                                         THEN Returned("raised", 0)
                                         ELSE Returned("bool", FALSE)

delete_lead(lead_id) ==
    /\ leads' = { l \in leads : l.id # lead_id }
    /\ lastResult' = Returned("bool", \E l \in leads : l.id = lead_id)
    /\ UNCHANGED <<backend, nextId, clock, statusGiven, statusCall>>

\* SELECT * FROM leads WHERE id = lead_id, then fetchone: the row as a
\* dictionary, or None.
fetchone(rows, lead_id) ==
    IF \E l \in rows : l.id = lead_id
    THEN Returned("lead", CHOOSE l \in rows : l.id = lead_id)
    ELSE Returned("no_lead", 0)

get_lead(lead_id) ==
    /\ lastResult' = fetchone(leads, lead_id)
    /\ UNCHANGED <<backend, leads, nextId, clock, statusGiven, statusCall>>

\* The id a caller of create_lead holds afterwards: the returned lastrowid
\* of the SQLite store, the 'id' of the record the Supabase store returns.
ReturnedId(r) ==
    IF r.kind = "id" THEN r.value ELSE r.value.id

score_to_status(score) ==
    /\ statusCall' = [score |-> score, result |-> ScoreToStatus(backend, score)]
    /\ UNCHANGED <<backend, leads, nextId, clock, lastResult, statusGiven>>

\* Scores handed to _score_to_status: the range and a margin on both sides.
ScoreDomain ==
    (0 - ScoreMargin)..(MaxScore + ScoreMargin)

\* Arguments of create_lead: one Cold and one Hot score, with and without an
\* explicit status.
CreateArgs(b) ==
    { [c \in (Columns(b) \ {"id", "created_at", "updated_at"}) |->
          CASE c = "name" -> "Ann"
            [] c = "email" -> "ann@co.com"
            [] c = "company" -> "Co"
            [] c = "interest" -> "AI"
            [] c = "lead_score" -> sc
            [] c = "status" -> st
            [] c = "source" -> "AI Assistant"
            [] OTHER -> ""] : sc \in {35, 85}, st \in {NoneStatus, "VIP"} }

\* Arguments of create_lead for the round trip: every field given with a
\* value of its own, or only name and email given and the rest at the
\* defaults of the signature; two scores, with and without a status.
RoundTripArgs(b) ==
    { [c \in (Columns(b) \ {"id", "created_at", "updated_at"}) |->
          CASE c = "name" -> IF full THEN "John Smith" ELSE "Ann"
            [] c = "email" -> IF full THEN "john@example.com" ELSE "ann@co.com"
            [] c = "company" -> IF full THEN "Test Corp" ELSE ""
            [] c = "interest" -> IF full THEN "AI automation for sales" ELSE ""
            [] c = "lead_score" -> IF full THEN sc ELSE 0
            [] c = "status" -> st
            [] c = "qualification_notes" -> IF full THEN "has budget" ELSE ""
            [] c = "meeting_id" -> IF full THEN "evt1" ELSE ""
            [] c = "meeting_time" -> IF full THEN "Monday 3pm" ELSE ""
            [] c = "meeting_link" -> IF full THEN "https://meet" ELSE ""
            [] c = "source" -> IF full THEN "Test" ELSE "AI Assistant"] :
        full \in BOOLEAN, sc \in {35, 85}, st \in {NoneStatus, "VIP"} }

Unset ==
    "unset"

UnsetScore ==
    0 - 1

\* Keyword arguments of update_lead: at most MaxKwargs of these keys.
KwargsChoices ==
    [ lead_score : {UnsetScore, 85},
      status : {Unset, "VIP"},
      meeting_link : {Unset, "https://meet"},
      updated_at : {UnsetScore, 0} ]

NamedKeys(r) ==
    { k \in DOMAIN r : r[k] # (IF k \in {"lead_score", "updated_at"} THEN UnsetScore ELSE Unset) }

KwargsSet ==
    { [k \in NamedKeys(r) |-> r[k]] :
        r \in { q \in KwargsChoices : Cardinality(NamedKeys(q)) <= MaxKwargs } }

LeadIds ==
    1..(MaxLeads + 1)

\* ---------------------------------------------------------- lead scoring

\* Texts over a small alphabet: two digits, the dot, the minus sign and a
\* letter standing for every other character.
Digits ==
    {"1", "7"}

NumberChars ==
    Digits \cup {"."}

ScoreChars ==
    NumberChars \cup {"-", "a"}

Texts ==
    UNION { [1..n -> ScoreChars] : n \in 0..MaxText }

RECURSIVE Pow10(_)
Pow10(n) ==
    IF n = 0 THEN 1 ELSE 10 * Pow10(n - 1)

\* Floats are held as [k, v]: k is finite, nan, inf or neginf, and v the
\* value of a finite one in units of 10^-MaxText, which holds every number
\* MaxText characters can spell.
Finite(v) ==
    [k |-> "finite", v |-> v]

RECURSIVE DigitsValue(_)
DigitsValue(ds) ==
    IF ds = <<>> THEN 0
    ELSE 10 * DigitsValue(SubSeq(ds, 1, Len(ds) - 1)) + (IF Last(ds) = "1" THEN 1 ELSE 7)

\* Whether float() takes t, a text of digits and dots: one dot at most and
\* a digit at least ("7", "7.", ".7", "1.7"; not "." and not "1.7.1").
IsUnsignedNumber(t) ==
    /\ \A i \in 1..Len(t) : t[i] \in NumberChars
    /\ Cardinality({ i \in 1..Len(t) : t[i] = "." }) <= 1
    /\ \E i \in 1..Len(t) : t[i] \in Digits

UnsignedValue(t) ==
    LET dots == { i \in 1..Len(t) : t[i] = "." }
        dot  == IF dots = {} THEN Len(t) + 1 ELSE CHOOSE i \in dots : TRUE
        frac == SubSeq(t, dot + 1, Len(t))
    IN  DigitsValue(SubSeq(t, 1, dot - 1) \o frac) * Pow10(MaxText - Len(frac))

\* float(t) of a text: an optional sign and an unsigned number, else
\* ValueError.
FloatOfText(t) ==
    LET body == IF t # <<>> /\ t[1] = "-" THEN Tail(t) ELSE t
    IN  IF IsUnsignedNumber(body)
        THEN Returned("float", Finite(IF body = t THEN UnsignedValue(body)
                                                  ELSE 0 - UnsignedValue(body)))
        ELSE Returned("raised", "ValueError")

\* re.findall(r"[\d\.]+", t)[0]: the first maximal run of digits and dots
\* of t, <<>> when t has none.
FirstRun(t) ==
    LET at == { i \in 1..Len(t) : t[i] \in NumberChars }
    IN  IF at = {} THEN <<>>
        ELSE LET from == CHOOSE i \in at : \A j \in at : i <= j
                 to   == CHOOSE j \in from..Len(t) :
                             /\ \A i \in from..j : t[i] \in NumberChars
                             /\ (j = Len(t) \/ t[j + 1] \notin NumberChars)
             IN  SubSeq(t, from, to)

\* The value of the lead_score key of the parsed reply: [t, n, s] with t
\* its JSON type, n the number in tenths if it is a finite number, s its
\* characters if it is a string and the characters of its element if it
\* is a list.
ScoreRaw(t, n, s) ==
    [t |-> t, n |-> n, s |-> s]

\* str(score_raw) of a value that float() did not take.
StrOf(raw) ==
    CASE raw.t = "string" -> raw.s
      [] raw.t = "list" -> <<"a">> \o raw.s \o <<"a">>
      [] OTHER -> <<"a", "a", "a", "a">>

\* lines 113-118: parsed.get("lead_score", 0), float() of it, and on any
\* exception of float() the first run of digits and dots of its text, 0.0
\* if there is none.  The float() of that run may raise in its turn.
ScoreOf(raw) ==
    LET first == CASE raw.t = "missing" -> Returned("float", Finite(0))
                   [] raw.t = "number" -> Returned("float", Finite(raw.n * Pow10(MaxText - 1)))
                   [] raw.t = "true" -> Returned("float", Finite(Pow10(MaxText)))
                   [] raw.t \in {"nan", "inf", "neginf"} -> Returned("float", [k |-> raw.t, v |-> 0])
                   [] raw.t = "string" -> FloatOfText(raw.s)
                   [] OTHER -> Returned("raised", "TypeError")
    IN  IF first.kind = "float" THEN first
        ELSE IF FirstRun(StrOf(raw)) = <<>> THEN Returned("float", Finite(0))
        ELSE FloatOfText(FirstRun(StrOf(raw)))

\* round(x, 1) of a finite x, in tenths.  No text over Digits spells a
\* number half way between two tenths, so no tie is rounded here.
Round1(v) ==
    (v + (Pow10(MaxText - 1) \div 2)) \div Pow10(MaxText - 1)

\* A clamp that cuts off below 0.0 only.
ClampBelowOnly(x) ==
    CASE x.k \in {"nan", "inf"} -> MaxScore
      [] x.k = "neginf" -> 0
      [] OTHER -> IF Round1(x.v) < 0 THEN 0 ELSE Round1(x.v)

\* max(0.0, min(10.0, round(x, 1))), in tenths.  min(10.0, nan) is 10.0:
\* min keeps its first argument unless the second compares smaller.
Clamp(x) ==
    CASE x.k \in {"nan", "inf"} -> MaxScore
      [] x.k = "neginf" -> 0
      [] OTHER -> IF Round1(x.v) > MaxScore THEN MaxScore
                  ELSE IF Round1(x.v) < 0 THEN 0
                  ELSE Round1(x.v)

\* The dictionary of the except branch, lines 130-134.
DefaultAssessment(raw_notes) ==
    Returned("dict",
             [summary |-> IF raw_notes # "" THEN raw_notes ELSE "No summary available",
              lead_score |-> DefaultScore,
              qualification_reason |-> "Assessment failed, default scoring applied"])

\* parsed.get(key, "").strip() of a key that is missing or a string.
Stripped(field, text) ==
    IF field = "missing" THEN "" ELSE text

\* The model's reply: whether the call raised, returned no content or a
\* text; what json.loads makes of the text; what the keys of the object
\* hold.
ModelReply(reply, json, summary, reason, score) ==
    [reply |-> reply, json |-> json, summary |-> summary,
     qualification_reason |-> reason, lead_score |-> score]

\* An assessment without the except branch of line 128.
assess_lead_without_except(out, raw_notes) ==
    IF \/ out.reply # "content"
       \/ out.json # "object"
       \/ out.summary = "null"
       \/ out.qualification_reason = "null"
       \/ ScoreOf(out.lead_score).kind = "raised"
    THEN Returned("raised", "Exception")
    ELSE Returned("dict",
                  [summary |-> Stripped(out.summary, "Needs AR app"),
                   lead_score |-> Clamp(ScoreOf(out.lead_score).value),
                   qualification_reason |->
                        Stripped(out.qualification_reason, "Decision maker")])

\* assess_lead_with_llm, lines 94-134, for the reply `out` of the model.
\* Everything that raises between lines 95 and 126 ends in the default:
\* the model call, .strip() of a content of None, json.loads, .get of a
\* value that is no object, .strip() of a field that is no string, and
\* float() of the first run of digits and dots.
assess_lead_with_llm(out, raw_notes) ==
    IF \/ out.reply # "content"
       \/ out.json # "object"
       \/ out.summary = "null"
       \/ out.qualification_reason = "null"
       \/ ScoreOf(out.lead_score).kind = "raised"
    THEN DefaultAssessment(raw_notes)
    ELSE Returned("dict",
                  [summary |-> Stripped(out.summary, "Needs AR app"),
                   lead_score |-> Clamp(ScoreOf(out.lead_score).value),
                   qualification_reason |->
                        Stripped(out.qualification_reason, "Decision maker")])

\* Values of the lead_score key: absent, numbers inside and outside the
\* range, the non-finite numbers Python's json takes, texts, null, true
\* and a list.
ScoreRaws ==
    { ScoreRaw("number", n, <<>>) : n \in ScoreDomain }
        \cup { ScoreRaw("string", 0, t) : t \in Texts }
        \cup { ScoreRaw(t, 0, <<>>) : t \in {"missing", "null", "true", "nan", "inf", "neginf"} }
        \cup { ScoreRaw("list", 0, <<"7">>) }

\* Replies of the model: the failures before any field is read, and the
\* objects with every score and well-formed, missing or non-string texts.
ModelReplies ==
    { ModelReply(r, "invalid", "text", "text", ScoreRaw("number", 85, <<>>)) : r \in {"raises", "none"} }
        \cup { ModelReply("content", j, "text", "text", ScoreRaw("number", 85, <<>>)) : j \in {"invalid", "array"} }
        \cup { ModelReply("content", "object", f[1], f[2], sc) :
                    f \in { <<"text", "text">>, <<"missing", "missing">>,
                            <<"null", "text">>, <<"text", "null">> },
                    sc \in ScoreRaws }

AssessArgs ==
    [out : ModelReplies, raw_notes : {"", "wants a VR game"}]

\* -------------------------------------------------------- calendar tools

\* Dates are days counted from Monday 2024-01-01; date.weekday() is 0 on a
\* Monday and 6 on a Sunday.
Weekday(day) ==
    day % 7

WEEKDAYS ==
    [w \in {"monday", "tuesday", "wednesday", "thursday", "friday", "saturday", "sunday"} |->
        CASE w = "monday" -> 0
          [] w = "tuesday" -> 1
          [] w = "wednesday" -> 2
          [] w = "thursday" -> 3
          [] w = "friday" -> 4
          [] w = "saturday" -> 5
          [] w = "sunday" -> 6]

\* Words that follow "next" in a request, and str.lower of them.
Words ==
    DOMAIN WEEKDAYS \cup {"Monday", "FRIDAY", "mon", "week"}

Lower(word) ==
    CASE word = "Monday" -> "monday"
      [] word = "FRIDAY" -> "friday"
      [] word = "Hours" -> "hours"
      [] OTHER -> word

\* (target - today + 7) % 7, without the "or 7".
days_ahead_or_today(target, today) ==
    (target - today + 7) % 7

\* days_ahead = (target - today + 7) % 7 or 7
days_ahead(target, today) ==
    IF (target - today + 7) % 7 = 0 THEN 7 ELSE (target - today + 7) % 7

\* Lines 235-241: the text after the rewrite.  A text "next <word><rest>"
\* whose word is a weekday becomes "<date><rest>", the date being
\* days_ahead days after ref; any other text stays as it is.
Rewritten(a) ==
    IF a.next /\ Lower(a.word) \in DOMAIN WEEKDAYS
    THEN [rewritten |-> TRUE,
          date |-> a.ref + days_ahead(WEEKDAYS[Lower(a.word)], Weekday(a.ref)),
          rest |-> a.rest]
    ELSE [rewritten |-> FALSE, date |-> a.ref, rest |-> a.rest]

\* parse_datetime, lines 231-253.  dateparser reads the text (a.dp tells
\* whether it can; of a rewritten text it reads the date written there),
\* else the model is asked (a.llm: an ISO timestamp, something else, or
\* the call fails) and llm_parse_datetime raises unless it gets a
\* timestamp.  a.offset is the day dateparser or the model resolves a
\* text to that was not rewritten, counted from ref.
parse_datetime(a) ==
    LET text == Rewritten(a)
    IN  IF a.dp = "parsed"
        THEN Returned("datetime", [text |-> text,
                                   day |-> IF text.rewritten THEN text.date ELSE a.ref + a.offset])
        ELSE IF a.llm = "iso"
        THEN Returned("datetime", [text |-> text, day |-> a.ref + a.offset])
        ELSE Returned("raised", [text |-> text, day |-> 0])

DatetimeArgs ==
    [ref : 0..MaxRefDay, next : BOOLEAN, word : Words, rest : {"", " 3pm"},
     dp : {"parsed", "none"}, llm : {"iso", "invalid", "raises"}, offset : {0, 1}]

\* A duration text is a sequence of words, each a maximal run of digits
\* and dots or of letters, written one after the other ("1h30m") or with
\* blanks between them ("1 hour 30 minutes").  The patterns put \s* at
\* every place where two words meet, so they read both alike.
NumberWords ==
    {"1", "30", "1.5"}

DurationWords ==
    NumberWords \cup {"h", "hour", "Hours", "m", "minutes", "xyz"}

\* float() of a number word, in tenths.
NumberValue(word) ==
    CASE word = "1" -> 10
      [] word = "30" -> 300
      [] word = "1.5" -> 15

\* Whether \d+ takes the whole of the word.
IsDigits(word) ==
    word \in {"1", "30"}

\* Whether the word begins with the given letters.
Begins(word, prefix) ==
    CASE prefix = "h" -> word \in {"h", "hour", "hours"}
      [] prefix = "m" -> word \in {"m", "minutes"}
      [] prefix = "minute" -> word = "minutes"

\* re.match(patterns[i], t) for the words t: the groups of the match, or
\* matched = FALSE.  re.match binds the pattern to the start of the text
\* only: what follows the match is not looked at.
\*   1  (?P<value>\d+(?:\.\d+)?)\s*(?P<unit>h|hr|hour|hours)
\*   2  (?P<value>\d+(?:\.\d+)?)\s*(?P<unit>m|min|minute|minutes)
\*   3  (?P<hours>\d+)\s*h(?:our)?s?\s*(?P<minutes>\d+)\s*m(?:in)?(?:ute)?s?
\*   4  (?P<hours>\d+)\s*hours?\s*(?P<minutes>\d+)\s*minutes?
NoMatch ==
    [matched |-> FALSE, groups |-> "none", a |-> 0, b |-> 0, unit |-> ""]

re_match(i, t) ==
    CASE i \in {1, 2} ->
            IF /\ Len(t) >= 2
               /\ t[1] \in NumberWords
               /\ Begins(t[2], IF i = 1 THEN "h" ELSE "m")
            THEN [matched |-> TRUE, groups |-> "value", a |-> NumberValue(t[1]), b |-> 0,
                  unit |-> IF i = 1 THEN "h" ELSE "m"]
            ELSE NoMatch
      [] i \in {3, 4} ->
            IF /\ Len(t) >= 4
               /\ IsDigits(t[1])
               /\ t[2] \in (IF i = 3 THEN {"h", "hour", "hours"} ELSE {"hour", "hours"})
               /\ IsDigits(t[3])
               /\ Begins(t[4], IF i = 3 THEN "m" ELSE "minute")
            THEN [matched |-> TRUE, groups |-> "hours_minutes", a |-> NumberValue(t[1]),
                  b |-> NumberValue(t[3]), unit |-> ""]
            ELSE NoMatch

\* The timedelta lines 269-274 build from the groups of a match, in
\* seconds.
DurationOf(m) ==
    IF m.groups = "hours_minutes" THEN m.a * 360 + m.b * 6
    ELSE IF m.unit = "h" THEN m.a * 360
    ELSE m.a * 6

\* A loop over the patterns that keeps the result of the last match.
parse_duration_last_match(text) ==
    LET t == [i \in 1..Len(text.words) |-> Lower(text.words[i])]
        hits == { i \in 1..4 : re_match(i, t).matched }
    IN  IF hits = {} THEN Returned("raised", 0)
        ELSE Returned("timedelta",
                      DurationOf(re_match(CHOOSE i \in hits : \A j \in hits : j <= i, t)))

\* parse_duration, lines 255-275: the patterns in their order, the result
\* of the first that matches, ValueError if none does.
parse_duration(text) ==
    LET t == [i \in 1..Len(text.words) |-> Lower(text.words[i])]
        hits == { i \in 1..4 : re_match(i, t).matched }
    IN  IF hits = {} THEN Returned("raised", 0)
        ELSE Returned("timedelta",
                      DurationOf(re_match(CHOOSE i \in hits : \A j \in hits : i <= j, t)))

\* Texts written without blanks have no two number words and no two
\* letter words in a row: such a pair would be one word.
Alternates(w) ==
    \A i \in 1..(Len(w) - 1) : (w[i] \in NumberWords) # (w[i + 1] \in NumberWords)

DurationTexts ==
    { x \in [words : UNION { [1..n -> DurationWords] : n \in 0..MaxTokens },
             spaced : BOOLEAN] : x.spaced \/ Alternates(x.words) }

\* A timezone-aware datetime: the wall-clock time in quarters of an hour
\* from midnight (10:00 is 40) and the UTC offset of its zone, in
\* quarters.  Aware datetimes compare by the instant they denote.
Datetime(wall, off) ==
    [wall |-> wall, off |-> off]

Instant(dt) ==
    dt.wall - dt.off

\* dt.astimezone(zone)
AsTimezone(dt, off) ==
    Datetime(dt.wall - dt.off + off, off)

\* An overlap test that counts intervals that touch.
OverlapsOrTouches(start_dt, end_dt, slot) ==
    ~(Instant(end_dt) < Instant(slot.start) \/ Instant(start_dt) > Instant(slot.end))

\* not (end_dt <= slot_start or start_dt >= slot_end)
Overlaps(start_dt, end_dt, slot) ==
    ~(Instant(end_dt) <= Instant(slot.start) \/ Instant(start_dt) >= Instant(slot.end))

\* Lines 89-95: the slot's times read from their ISO texts and moved to
\* the zone of start_dt when they are in another one.
SlotInZone(slot, start_dt) ==
    IF slot.start_time.off # start_dt.off
    THEN [start |-> AsTimezone(slot.start_time, start_dt.off),
          end |-> AsTimezone(slot.end_time, start_dt.off)]
    ELSE [start |-> slot.start_time, end |-> slot.end_time]

\* A check that reports the slot as taken when it cannot tell.
check_availability_fail_closed(start_dt, end_dt, busy) ==
    IF busy.resp = "raises" \/ \E i \in 1..Len(busy.collection) : ~busy.collection[i].ok
    THEN Returned("dict", [available |-> FALSE, conflicts |-> <<>>])
    ELSE LET slots == [i \in 1..Len(busy.collection) |->
                            SlotInZone(busy.collection[i], start_dt)]
             conflicts == SelectSeq(slots, LAMBDA sl : Overlaps(start_dt, end_dt, sl))
         IN  Returned("dict", [available |-> Len(conflicts) = 0, conflicts |-> conflicts])

\* check_availability, lines 72-113, for the answer `busy` of
\* list_busy_times: busy.resp tells whether the request raised,
\* busy.collection is the list it returned.  A slot without its times
\* (ok = FALSE) raises KeyError; every exception ends in
\* "available", with no conflicts.
check_availability(start_dt, end_dt, busy) ==
    IF busy.resp = "raises" \/ \E i \in 1..Len(busy.collection) : ~busy.collection[i].ok
    THEN Returned("dict", [available |-> TRUE, conflicts |-> <<>>])
    ELSE LET slots == [i \in 1..Len(busy.collection) |->
                            SlotInZone(busy.collection[i], start_dt)]
             conflicts == SelectSeq(slots, LAMBDA sl : Overlaps(start_dt, end_dt, sl))
         IN  Returned("dict", [available |-> Len(conflicts) = 0, conflicts |-> conflicts])

\* Busy intervals as the service reports them, in UTC: every interval
\* between two of these times (09:00 to 12:00), and a slot without times.
BusySlots ==
    { [ok |-> TRUE, start_time |-> Datetime(p[1], 0), end_time |-> Datetime(p[2], 0)] :
        p \in { q \in {36, 38, 40, 42, 43, 44, 48} \X {36, 38, 40, 42, 43, 44, 48} : q[1] < q[2] } }
        \cup { [ok |-> FALSE, start_time |-> Datetime(0, 0), end_time |-> Datetime(0, 0)] }

BusyAnswers ==
    [resp : {"ok", "raises"},
     collection : UNION { [1..n -> BusySlots] : n \in 0..MaxBusy }]

\* Requests: 10:00 to 11:00 and 10:45 to 11:00, in UTC or an hour east.
AvailabilityArgs ==
    { [start_dt |-> Datetime(r[1], off), end_dt |-> Datetime(r[2], off), busy |-> b] :
        r \in {<<40, 44>>, <<43, 44>>}, off \in {0, 4}, b \in BusyAnswers }

\* ------------------------------------------------------------ scheduling

\* One entry of the trace: a function the scheduling call called, and how
\* the call of it ended.
Called(call, outcome) ==
    [call |-> call, outcome |-> outcome]

\* The time of day of a parsed start: 15:00 for "3pm", else the time of
\* day of the reference instant, 10:00.
WallClock(rest) ==
    IF rest = " 3pm" THEN 60 ELSE 40

\* A duration parse that falls back on an hour.
ParsedDurationOrHour(text) ==
    IF parse_duration(text).kind = "raised"
    THEN Returned("timedelta", 3600)
    ELSE parse_duration(text)

\* Line 311: parse_duration.invoke
ParsedDuration(text) ==
    parse_duration(text)

\* A test that lets every request through.
ProceedAlways(availability) ==
    TRUE

\* Line 319: the request goes on to booking if the check said available.
Proceed(availability) ==
    availability.value.available

\* What the capture leaves behind: what it tells (captured with a score,
\* not stored, failed) and the rows it appended to the worksheet.
Capture(status, score, rows) ==
    [status |-> status, score |-> score, rows |-> rows]

\* A capture that stores the lead without the id of the event.
auto_capture_without_meeting_id(a, meeting_id) ==
    LET assessment == assess_lead_with_llm(a.reply, a.project_description).value
    IN  CASE a.capture = "stored" ->
                Capture("captured", assessment.lead_score,
                        << [name |-> a.attendee_name, email |-> a.attendee_email,
                            lead_score |-> assessment.lead_score,
                            meeting_id |-> 0,
                            source |-> "Auto-Capture (Meeting)"] >>)
          [] a.capture = "no_sheet" -> Capture("not_stored", 0, <<>>)
          [] OTHER -> Capture("failed", 0, <<>>)

\* auto_capture_meeting_lead.invoke, lines 385-397, with lead_tools.py
\* lines 161-241 behind it.  a.capture is what the worksheet service
\* does: the row is stored, LEADS_SHEET_ID is not set, an exception that
\* the tool turns into its failure text, or the invocation itself raises
\* and line 397 writes the failure text.
auto_capture_meeting_lead(a, meeting_id) ==
    LET assessment == assess_lead_with_llm(a.reply, a.project_description).value
    IN  CASE a.capture = "stored" ->
                Capture("captured", assessment.lead_score,
                        << [name |-> a.attendee_name, email |-> a.attendee_email,
                            lead_score |-> assessment.lead_score,
                            meeting_id |-> meeting_id,
                            source |-> "Auto-Capture (Meeting)"] >>)
          [] a.capture = "no_sheet" -> Capture("not_stored", 0, <<>>)
          [] OTHER -> Capture("failed", 0, <<>>)

\* A booking that is taken back when the capture of the lead fails.
BookedUnlessCaptureFailed(evs, event, capture) ==
    IF capture.status = "failed" THEN evs ELSE evs \cup {event}

\* The calendar after events().insert of line 363 and the capture.
Booked(evs, event, capture) ==
    evs \cup {event}

\* What one scheduling call leaves: its response, its trace, the calendar
\* and the worksheet.
Outcome(response, calls, evs, rows) ==
    [response |-> response, trace |-> calls, events |-> evs, sheet |-> rows]

\* schedule_by_natural_with_lead_capture, lines 308-421, called with `a`
\* on the calendar evs and the worksheet rows.  a carries the arguments
\* and the answers of the services the call uses.
Schedule(a, evs, rows) ==
    LET start == parse_datetime(a.start)
        duration == ParsedDuration(a.duration)
    IN  IF start.kind = "raised"
        THEN Outcome(Returned("error", "parse_datetime"),
                     <<Called("parse_datetime", "raised")>>, evs, rows)
        ELSE IF duration.kind = "raised"
        THEN Outcome(Returned("error", "parse_duration"),
                     <<Called("parse_datetime", "datetime"),
                       Called("parse_duration", "raised")>>, evs, rows)
        ELSE
        LET start_dt == Datetime(WallClock(a.start.rest), 0)
            end_dt == Datetime(start_dt.wall + (duration.value \div 900), 0)
            availability == check_availability(start_dt, end_dt, a.busy)
            parsed == <<Called("parse_datetime", "datetime"),
                        Called("parse_duration", "timedelta"),
                        Called("check_availability",
                               IF availability.value.available THEN "available" ELSE "conflict")>>
            event == [id |-> Cardinality(evs) + 1, day |-> start.value.day,
                      start |-> start_dt, end |-> end_dt, attendee |-> a.attendee_email]
            capture == auto_capture_meeting_lead(a, event.id)
        IN  IF ~Proceed(availability)
            THEN Outcome(Returned("not_available",
                                  [conflicts |-> availability.value.conflicts,
                                   alternatives |-> a.alternatives]),
                         Append(parsed, Called("suggest_alternative_times", a.alternatives)),
                         evs, rows)
            ELSE IF a.create = "raises"
            THEN Outcome(Returned("error", "create_meeting_with_google_meet"),
                         Append(parsed, Called("create_meeting_with_google_meet", "raised")),
                         evs, rows)
            ELSE IF a.create = "none"
            THEN Outcome(Returned("create_failed", 0),
                         Append(parsed, Called("create_meeting_with_google_meet", "none")),
                         evs, rows)
            ELSE Outcome(Returned("scheduled",
                                  [event |-> event, duration_text |-> a.duration,
                                   lead_status |-> [status |-> capture.status,
                                                    score |-> capture.score]]),
                         parsed \o <<Called("create_meeting_with_google_meet", "event"),
                                     Called("auto_capture_meeting_lead", capture.status)>>,
                         Booked(evs, event, capture), rows \o capture.rows)

schedule_by_natural_with_lead_capture(a) ==
    LET out == Schedule(a, events, sheet)
    IN  /\ args' = a
        /\ result' = out.response
        /\ trace' = out.trace
        /\ events' = out.events
        /\ sheet' = out.sheet
        /\ UNCHANGED fn

\* Choices for a scheduling call: "next monday 3pm" (read by dateparser)
\* or a text nobody can read; "1h", "1h30m" or "xyz" as duration; the
\* day free, busy at the time asked for, busy at that time with a second
\* slot that lacks its times, or the busy-time request failing.
ScheduleChoices ==
    [start : { [ref |-> 2, next |-> TRUE, word |-> "monday", rest |-> " 3pm",
                dp |-> "parsed", llm |-> "iso", offset |-> 0],
               [ref |-> 2, next |-> FALSE, word |-> "week", rest |-> "",
                dp |-> "none", llm |-> "invalid", offset |-> 0] },
     duration : { [words |-> <<"1", "h">>, spaced |-> FALSE],
                  [words |-> <<"1", "h", "30", "m">>, spaced |-> FALSE],
                  [words |-> <<"xyz">>, spaced |-> FALSE] },
     attendee_name : {"Ann"},
     attendee_email : {"ann@co.com"},
     project_description : {"wants a VR game"},
     busy : { [resp |-> "ok", collection |-> <<>>],
              [resp |-> "ok", collection |->
                    << [ok |-> TRUE, start_time |-> Datetime(62, 0),
                        end_time |-> Datetime(66, 0)] >>],
              [resp |-> "ok", collection |->
                    << [ok |-> TRUE, start_time |-> Datetime(64, 0),
                        end_time |-> Datetime(68, 0)] >>],
              [resp |-> "ok", collection |->
                    << [ok |-> TRUE, start_time |-> Datetime(56, 0),
                        end_time |-> Datetime(68, 0)],
                       [ok |-> FALSE, start_time |-> Datetime(0, 0),
                        end_time |-> Datetime(0, 0)] >>],
              [resp |-> "raises", collection |-> <<>>] },
     alternatives : {"suggestions", "none_found"},
     create : {"event", "none", "raises"},
     capture : {"stored", "no_sheet", "failed", "raises"},
     reply : { ModelReply("content", "object", "text", "text", ScoreRaw("number", 85, <<>>)),
               ModelReply("raises", "invalid", "text", "text", ScoreRaw("number", 85, <<>>)) }]

\* The answer of a service the call does not ask is left at one value.
Asked(a) ==
    LET calls == Schedule(a, {}, <<>>).trace
        made == { calls[i].call : i \in 1..Len(calls) }
    IN  /\ "check_availability" \notin made => a.busy.collection = <<>> /\ a.busy.resp = "ok"
        /\ "suggest_alternative_times" \notin made => a.alternatives = "suggestions"
        /\ "create_meeting_with_google_meet" \notin made => a.create = "event"
        /\ "auto_capture_meeting_lead" \notin made =>
                a.capture = "stored" /\ a.reply.reply = "content"

ScheduleArgs ==
    { a \in ScheduleChoices : Asked(a) }

\* ------------------------------------------------------ alternative times

\* Days, counted from a Monday, on which the original start may fall.
MaxStartDay ==
    6

\* max_attempts of the search.
max_attempts ==
    50

\* The default of num_suggestions.
DefaultSuggestions ==
    3

\* Business hours, as the search tests current_time.hour.
OpeningHour ==
    9

ClosingHour ==
    18

\* Quarters of an hour in an hour and in a day.
HourQuarters ==
    4

DayQuarters ==
    96

\* A loop condition that goes on while either limit is not reached.
ContinueUntilBoth(suggestions, attempts, num_suggestions) ==
    Len(suggestions) < num_suggestions \/ attempts < max_attempts

\* while len(suggestions) < num_suggestions and attempts < max_attempts
Continue(suggestions, attempts, num_suggestions) ==
    Len(suggestions) < num_suggestions /\ attempts < max_attempts

\* Lines 152-163: an hour later; when that hour is before 9 or from 18 on,
\* 09:00 of the same day or (from 18 on) of the day after, moved past
\* Saturday and Sunday.  A time is a day and a wall-clock time in quarters.
NextProbe(current_time) ==
    LET later == current_time.wall + HourQuarters
        moved == IF later >= DayQuarters
                 THEN [day |-> current_time.day + 1, wall |-> later - DayQuarters]
                 ELSE [day |-> current_time.day, wall |-> later]
        hour == moved.wall \div HourQuarters
        next_day == IF hour >= ClosingHour THEN moved.day + 1 ELSE moved.day
        weekday == CHOOSE d \in next_day..(next_day + 2) :
                      /\ Weekday(d) < 5
                      /\ \A e \in next_day..(d - 1) : Weekday(e) >= 5
    IN  IF hour < OpeningHour \/ hour >= ClosingHour
        THEN [day |-> weekday, wall |-> OpeningHour * HourQuarters]
        ELSE moved

\* The loop of lines 140-165 from current_time on: the suggestions found
\* and the number of availability probes made.  The calendar answers
\* a.busy for the day of every probe.
RECURSIVE Search(_, _, _, _)
Search(a, current_time, attempts, suggestions) ==
    IF ~Continue(suggestions, attempts, a.num_suggestions)
    THEN [suggestions |-> suggestions, attempts |-> attempts]
    ELSE LET availability == check_availability(
                                 Datetime(current_time.wall, 0),
                                 Datetime(current_time.wall + a.duration, 0), a.busy)
         IN  Search(a, NextProbe(current_time), attempts + 1,
                    IF availability.value.available
                    THEN Append(suggestions, current_time)
                    ELSE suggestions)

\* suggest_alternative_times: a.parse tells whether parse_datetime and
\* parse_duration returned (a.original_start and a.duration) or one of
\* them raised.
suggest_alternative_times(a) ==
    IF a.parse = "raised"
    THEN Returned("error", [slots |-> <<>>, probes |-> 0])
    ELSE LET found == Search(a, a.original_start, 0, <<>>)
         IN  IF found.suggestions = <<>>
             THEN Returned("none_found", [slots |-> <<>>, probes |-> found.attempts])
             ELSE Returned("suggestions",
                           [slots |-> found.suggestions, probes |-> found.attempts])

\* Calls: a start at 02:30, 09:00, 10:00, 16:30, 17:00, 18:00 or 23:00 of
\* any day of a week, half an hour or an hour long; the calendar free,
\* busy all day, busy until noon, holding a slot without its times, or
\* failing to answer.
SuggestArgs ==
    { a \in [parse : {"parsed", "raised"},
             original_start : [day : 0..MaxStartDay, wall : {10, 36, 40, 66, 68, 72, 92}],
             duration : {2, 4},
             num_suggestions : {0, 1, DefaultSuggestions},
             busy : { [resp |-> "ok", collection |-> <<>>],
                      [resp |-> "ok", collection |->
                            << [ok |-> TRUE, start_time |-> Datetime(0, 0),
                                end_time |-> Datetime(2 * DayQuarters, 0)] >>],
                      [resp |-> "ok", collection |->
                            << [ok |-> TRUE, start_time |-> Datetime(0, 0),
                                end_time |-> Datetime(48, 0)] >>],
                      [resp |-> "ok", collection |->
                            << [ok |-> FALSE, start_time |-> Datetime(0, 0),
                                end_time |-> Datetime(0, 0)] >>],
                      [resp |-> "raises", collection |-> <<>>] }] :
        a.parse = "raised" =>
            /\ a.original_start = [day |-> 0, wall |-> 36]
            /\ a.duration = 2
            /\ a.busy = [resp |-> "ok", collection |-> <<>>] }

\* ------------------------------------------------------ retrieval engine

\* Relevance scores are held in hundredths (0.35 is 35).

\* Chunks one search returns in the explored runs; the search asks for 5.
MaxDocs ==
    4

\* RAG_MIN_RELEVANCE_SCORE as configured by default, the threshold the
\* retriever of ProfessionalRAG is constructed with.
MIN_RELEVANCE ==
    70

\* The score retriever_tool accepts a chunk at.
AcceptScore ==
    35

\* Chunks joined into the context, characters of the joined context kept,
\* and characters of the separator between two chunks.
ContextChunks ==
    3

ContextChars ==
    3000

SeparatorChars ==
    7

\* A chunk as the search returns it: its relevance score, the source in its
\* metadata and the length of its stripped content.
Chunks ==
    [score : {20, 35, 80}, source : {"services.txt", "cases.pdf"}, chars : {1000, 3000}]

\* similarity_search_with_relevance_scores: at most k chunks, the most
\* relevant first.
SearchResults ==
    { docs \in UNION { [1..n -> Chunks] : n \in 0..MaxDocs } :
        \A i \in 1..(Len(docs) - 1) : docs[i].score >= docs[i + 1].score }

\* The module global before the first call of the accessor.
NoInstance ==
    [id |-> 0, retriever |-> "None"]

\* ProfessionalRAG(): _initialize sets the retriever when a vector store
\* was loaded or built, and leaves it None when no document was found or
\* when anything raised; the constructor itself never raises.
ProfessionalRAG(id, init) ==
    [id |-> id, retriever |-> IF init = "ready" THEN "retriever" ELSE "None"]

\* The accessor that constructs on every call.
get_rag_system_uncached(inst, made, init) ==
    [instance |-> ProfessionalRAG(made + 1, init), constructed |-> made + 1]

\* get_rag_system: constructs the engine when the global is None, and
\* hands out the global.
get_rag_system(inst, made, init) ==
    IF inst = NoInstance
    THEN [instance |-> ProfessionalRAG(made + 1, init), constructed |-> made + 1]
    ELSE [instance |-> inst, constructed |-> made]

\* The chunks accepted into relevant_content, in the order of the search.
Accepted(docs) ==
    SelectSeq(docs, LAMBDA c : c.score >= AcceptScore)

\* Where the content of the i-th joined chunk starts in the joined text.
RECURSIVE Offset(_, _)
Offset(contents, i) ==
    IF i = 1 THEN 0
    ELSE Offset(contents, i - 1) + contents[i - 1].chars + SeparatorChars

\* "\n\n---\n\n".join(relevant_content[:3])[:3000]: the chunks of which
\* at least one character is in combined_content.
Combined(relevant) ==
    LET joined == SubSeq(relevant, 1, IF Len(relevant) < ContextChunks
                                      THEN Len(relevant) ELSE ContextChunks)
    IN  SelectSeq([i \in 1..Len(joined) |-> [chunk |-> joined[i], at |-> Offset(joined, i)]],
                  LAMBDA c : c.at < ContextChars)

\* retriever_tool, the whole handler: the response (which of its messages,
\* the chunks of the context the answer was composed from, the sources it
\* names), the calls made, and the module global and the count of
\* constructions after it.
Retrieve(a, inst, made) ==
    LET got       == get_rag_system(inst, made, a.init)
        rag       == got.instance
        t0        == <<Called("get_rag_system",
                              IF got.constructed = made THEN "cached" ELSE "constructed")>>
        t1        == Append(t0, Called("_expand_query", "returned"))
        t2        == Append(t1, Called("similarity_search_with_relevance_scores",
                                       IF a.search = "raises" THEN "raised" ELSE "returned"))
        relevant  == Accepted(a.docs)
        sources_used == { relevant[i].source : i \in 1..Len(relevant) }
        t3        == Append(t2, Called("chat.completions.create",
                                       IF a.llm = "raises" THEN "raised" ELSE "returned"))
        Answer(kind, context, sources) ==
            Returned(kind, [context |-> context, sources |-> sources])
        Out(response, calls) ==
            [response |-> response, trace |-> calls,
             instance |-> rag, constructed |-> got.constructed]
    IN  IF rag.retriever = "None"
        THEN Out(Answer("not_available", <<>>, {}), t0)
        ELSE IF a.search = "raises"
        THEN Out(Answer("error", <<>>, {}), t2)
        ELSE IF a.docs = <<>>
        THEN Out(Answer("nothing_found", <<>>, {}), t2)
        ELSE IF relevant = <<>>
        THEN Out(Answer("not_relevant", <<>>, {}), t2)
        ELSE IF a.llm = "raises"
        THEN Out(Answer("error", <<>>, {}), t3)
        ELSE Out(Answer("answer", Combined(relevant), sources_used), t3)

retriever_tool(a) ==
    LET out == Retrieve(a, instance, constructed)
    IN  /\ result' = out.response
        /\ trace' = out.trace
        /\ instance' = out.instance
        /\ constructed' = out.constructed

\* A query: what the first initialization of the engine comes to if this
\* call runs it, and what the store and the model answer.  The answers of
\* services a call does not reach are held at one value.
RetrieverArgs ==
    { a \in [init : {"ready", "no_documents", "raised"}, search : {"returned", "raises"},
             docs : SearchResults, llm : {"returned", "raises"}] :
        /\ (a.init # "ready" \/ a.search = "raises") => a.docs = <<>>
        /\ Accepted(a.docs) = <<>> => a.llm = "returned" }

\* ------------------------------------------------------ lazy singletons

\* Sessions that call one accessor at the same time.
MaxSessions ==
    2

\* get_crm, get_rag_system and get_calendar_creator: the same shape, a
\* test of the module global, a constructor call, an assignment, a return.
Accessors ==
    {"get_crm", "get_rag_system", "get_calendar_creator"}

\* What the constructor call of an accessor comes to.  ProfessionalRAG()
\* gives an object whatever happens inside it; ApexCRM(), SupabaseCRM() and
\* GoogleCalendarMeetingCreator() give an object or raise.
ConstructorOutcomes(accessor) ==
    IF accessor = "get_rag_system" THEN {"ready", "no_documents"} ELSE {"ready", "raised"}

\* if <global> is None
TestGlobal(s) ==
    /\ session[s].pc = "call"
    /\ session' = [session EXCEPT ![s].pc =
                      IF instance = NoInstance THEN "construct" ELSE "return"]
    /\ UNCHANGED <<instance, constructed>>

\* the right-hand side of <global> = Class()
Construct(s) ==
    /\ session[s].pc = "construct"
    /\ \E outcome \in ConstructorOutcomes(fn) :
         IF outcome = "raised"
         THEN /\ session' = [session EXCEPT ![s].pc = "raised"]
              /\ UNCHANGED <<instance, constructed>>
         ELSE /\ constructed' = constructed + 1
              /\ session' = [session EXCEPT ![s].pc = "assign",
                                            ![s].made = ProfessionalRAG(constructed + 1, outcome)]
              /\ UNCHANGED instance

\* the store into the module global
Assign(s) ==
    /\ session[s].pc = "assign"
    /\ instance' = session[s].made
    /\ session' = [session EXCEPT ![s].pc = "return"]
    /\ UNCHANGED constructed

\* return <global>
Return(s) ==
    /\ session[s].pc = "return"
    /\ session' = [session EXCEPT ![s].pc = "done", ![s].got = instance]
    /\ UNCHANGED <<instance, constructed>>

\* -------------------------------------------------------- specifications

HelpersIdle ==
    /\ fn = "none"
    /\ args = <<>>
    /\ result = Returned("pending", 0)
    /\ events = {}
    /\ sheet = <<>>
    /\ trace = <<>>

SingletonsIdle ==
    /\ instance = NoInstance
    /\ constructed = 0
    /\ session = <<>>

CrmIdle ==
    /\ backend = "sqlite"
    /\ leads = {}
    /\ nextId = 1
    /\ clock = 0
    /\ lastResult = Returned("none", 0)
    /\ statusGiven = FALSE
    /\ statusCall = [score |-> 0, result |-> "none"]

Init ==
    /\ messages \in InitialConversations
    /\ contexts \in { [lead_context |-> "absent", meeting_context |-> "absent"],
                      [lead_context |-> "empty", meeting_context |-> "empty"] }
    /\ pc = "agent"
    /\ reasonCount = 0
    /\ nextCallId = 1
    /\ executed = <<>>
    /\ llmFailed = FALSE
    /\ initLen = Len(messages)
    /\ CrmIdle
    /\ HelpersIdle
    /\ SingletonsIdle

AgentStep ==
    /\ reasonCount < MaxReason
    /\ \E names \in Responses(CalledTools) : model_call(names)
    /\ UNCHANGED <<crmVars, helperVars, singletonVars>>

AgentFails ==
    /\ model_call_raises
    /\ UNCHANGED <<crmVars, helperVars, singletonVars>>

ToolsStep ==
    /\ tool_node
    /\ UNCHANGED <<crmVars, helperVars, singletonVars>>

Next ==
    \/ AgentStep
    \/ AgentFails
    \/ ToolsStep

Spec ==
    Init /\ [][Next]_vars

\* The loop specification: the model asks for one tool in every response,
\* followed for LoopDepth model invocations.
LoopResponses ==
    {<<>>} \cup { <<t>> : t \in (LoopTools \cap tools) }

LoopStep ==
    /\ reasonCount < LoopDepth
    /\ \E names \in LoopResponses : model_call(names)
    /\ UNCHANGED <<crmVars, helperVars, singletonVars>>

NextLoop ==
    \/ LoopStep
    \/ AgentFails
    \/ ToolsStep

SpecLoop ==
    Init /\ [][NextLoop]_vars

\* The lead-store specification: one store, used through its interface.
AgentIdle ==
    /\ messages = <<HumanMessage>>
    /\ contexts = [lead_context |-> "empty", meeting_context |-> "empty"]
    /\ pc = "agent"
    /\ reasonCount = 0
    /\ nextCallId = 1
    /\ executed = <<>>
    /\ llmFailed = FALSE
    /\ initLen = 1

InitCrm ==
    /\ AgentIdle
    /\ SingletonsIdle
    /\ HelpersIdle
    /\ backend \in {"sqlite", "supabase"}
    /\ leads = {}
    /\ nextId = 1
    /\ clock = 0
    /\ lastResult = Returned("none", 0)
    /\ statusGiven = FALSE
    /\ statusCall = [score |-> 0, result |-> "none"]

CreateLead ==
    /\ \E a \in CreateArgs(backend) : create_lead(a)
    /\ UNCHANGED <<agentVars, helperVars, singletonVars>>

UpdateLead ==
    /\ \E id \in LeadIds, kwargs \in KwargsSet : update_lead(id, kwargs)
    /\ UNCHANGED <<agentVars, helperVars, singletonVars>>

DeleteLead ==
    /\ \E id \in LeadIds : delete_lead(id)
    /\ UNCHANGED <<agentVars, helperVars, singletonVars>>

NextCrm ==
    \/ CreateLead
    \/ UpdateLead
    \/ DeleteLead

SpecCrm ==
    InitCrm /\ [][NextCrm]_vars

\* The status specification: _score_to_status applied to every score.
ScoreToStatusCall ==
    /\ \E score \in ScoreDomain : score_to_status(score)
    /\ UNCHANGED <<agentVars, helperVars, singletonVars>>

SpecStatus ==
    InitCrm /\ [][ScoreToStatusCall]_vars

\* The round-trip specification: leads are created, fetched and deleted.
CreateLeadRoundTrip ==
    /\ \E a \in RoundTripArgs(backend) : create_lead(a)
    /\ UNCHANGED <<agentVars, helperVars, singletonVars>>

GetLead ==
    /\ \E id \in LeadIds : get_lead(id)
    /\ UNCHANGED <<agentVars, helperVars, singletonVars>>

NextRoundTrip ==
    \/ CreateLeadRoundTrip
    \/ GetLead
    \/ DeleteLead

SpecRoundTrip ==
    InitCrm /\ [][NextRoundTrip]_vars

\* The assessment specification: one call of assess_lead_with_llm for
\* every reply of the model.
InitAssess ==
    /\ AgentIdle
    /\ SingletonsIdle
    /\ CrmIdle
    /\ fn = "assess_lead_with_llm"
    /\ args \in AssessArgs
    /\ result = Returned("pending", 0)
    /\ events = {}
    /\ sheet = <<>>
    /\ trace = <<>>

AssessCall ==
    /\ fn = "assess_lead_with_llm"
    /\ result.kind = "pending"
    /\ result' = assess_lead_with_llm(args.out, args.raw_notes)
    /\ UNCHANGED <<fn, args, agentVars, crmVars, calendarVars, singletonVars>>

SpecAssess ==
    InitAssess /\ [][AssessCall]_vars

\* The date specification: one call of parse_datetime for every reference
\* day and text.
InitDatetime ==
    /\ AgentIdle
    /\ SingletonsIdle
    /\ CrmIdle
    /\ fn = "parse_datetime"
    /\ args \in DatetimeArgs
    /\ result = Returned("pending", 0)
    /\ events = {}
    /\ sheet = <<>>
    /\ trace = <<>>

ParseDatetimeCall ==
    /\ fn = "parse_datetime"
    /\ result.kind = "pending"
    /\ result' = parse_datetime(args)
    /\ UNCHANGED <<fn, args, agentVars, crmVars, calendarVars, singletonVars>>

SpecDatetime ==
    InitDatetime /\ [][ParseDatetimeCall]_vars

\* The duration specification: one call of parse_duration for every text.
InitDuration ==
    /\ AgentIdle
    /\ SingletonsIdle
    /\ CrmIdle
    /\ fn = "parse_duration"
    /\ args \in DurationTexts
    /\ result = Returned("pending", 0)
    /\ events = {}
    /\ sheet = <<>>
    /\ trace = <<>>

ParseDurationCall ==
    /\ fn = "parse_duration"
    /\ result.kind = "pending"
    /\ result' = parse_duration(args)
    /\ UNCHANGED <<fn, args, agentVars, crmVars, calendarVars, singletonVars>>

SpecDuration ==
    InitDuration /\ [][ParseDurationCall]_vars

\* The availability specification: one call of check_availability for
\* every request and every answer of the calendar service.
InitAvailability ==
    /\ AgentIdle
    /\ SingletonsIdle
    /\ CrmIdle
    /\ fn = "check_availability"
    /\ args \in AvailabilityArgs
    /\ result = Returned("pending", 0)
    /\ events = {}
    /\ sheet = <<>>
    /\ trace = <<>>

CheckAvailabilityCall ==
    /\ fn = "check_availability"
    /\ result.kind = "pending"
    /\ result' = check_availability(args.start_dt, args.end_dt, args.busy)
    /\ UNCHANGED <<fn, args, agentVars, crmVars, calendarVars, singletonVars>>

SpecAvailability ==
    InitAvailability /\ [][CheckAvailabilityCall]_vars

\* The scheduling specification: calls of the scheduling tool, one after
\* the other, on one calendar and one worksheet.
InitSchedule ==
    /\ AgentIdle
    /\ SingletonsIdle
    /\ CrmIdle
    /\ fn = "schedule_by_natural_with_lead_capture"
    /\ args = <<>>
    /\ result = Returned("pending", 0)
    /\ events = {}
    /\ sheet = <<>>
    /\ trace = <<>>

ScheduleCall ==
    /\ Cardinality(events) < MaxBookings
    /\ \E a \in ScheduleArgs : schedule_by_natural_with_lead_capture(a)
    /\ UNCHANGED <<agentVars, crmVars, singletonVars>>

SpecSchedule ==
    InitSchedule /\ [][ScheduleCall]_vars

\* The retrieval specification: a question, asked again and again in one
\* process that starts without an engine; what an initialization would
\* come to may change from one call to the next.
InitRetriever ==
    /\ AgentIdle
    /\ CrmIdle
    /\ SingletonsIdle
    /\ fn = "retriever_tool"
    /\ args \in RetrieverArgs
    /\ result = Returned("pending", 0)
    /\ events = {}
    /\ sheet = <<>>
    /\ trace = <<>>

RetrieverToolCall ==
    /\ fn = "retriever_tool"
    /\ \E init \in IF result.kind = "pending"
                   THEN {args.init}
                   ELSE {"ready", "no_documents", "raised"} :
         /\ args' = [args EXCEPT !.init = init]
         /\ retriever_tool(args')
    /\ UNCHANGED <<fn, events, sheet, session, agentVars, crmVars>>

SpecRetriever ==
    InitRetriever /\ [][RetrieverToolCall]_vars

\* The singleton specification: the sessions of one process call one of
\* the accessors for the first time, their steps interleaved.
InitSingleton ==
    /\ AgentIdle
    /\ CrmIdle
    /\ fn \in Accessors
    /\ args = <<>>
    /\ result = Returned("pending", 0)
    /\ events = {}
    /\ sheet = <<>>
    /\ trace = <<>>
    /\ instance = NoInstance
    /\ constructed = 0
    /\ session = [s \in 1..MaxSessions |-> [pc |-> "call", made |-> NoInstance, got |-> NoInstance]]

NextSingleton ==
    /\ \E s \in 1..MaxSessions :
         \/ TestGlobal(s)
         \/ Construct(s)
         \/ Assign(s)
         \/ Return(s)
    /\ UNCHANGED <<fn, args, result, agentVars, crmVars, calendarVars>>

SpecSingleton ==
    InitSingleton /\ [][NextSingleton]_vars

\* The alternative-times specification: one call of
\* suggest_alternative_times for every start, duration and calendar.
InitSuggest ==
    /\ AgentIdle
    /\ SingletonsIdle
    /\ CrmIdle
    /\ fn = "suggest_alternative_times"
    /\ args \in SuggestArgs
    /\ result = Returned("pending", 0)
    /\ events = {}
    /\ sheet = <<>>
    /\ trace = <<>>

SuggestCall ==
    /\ fn = "suggest_alternative_times"
    /\ result.kind = "pending"
    /\ result' = suggest_alternative_times(args)
    /\ UNCHANGED <<fn, args, agentVars, crmVars, calendarVars, singletonVars>>

SpecSuggest ==
    InitSuggest /\ [][SuggestCall]_vars

\* ------------------------------------------------------ agent loop claims

IsPlainReply(m) ==
    m.role = "assistant" /\ m.tool_calls = <<>>

\* C1: the turn is at END exactly when the model has answered in this turn
\* and its latest response, the last message of the state, is an assistant
\* message without tool calls.
C1_DoneIffPlainReply ==
    (pc = "END") <=> (Len(messages) > initLen /\ IsPlainReply(Last(messages)))

\* A turn that ended after a round of tool calls.
C1_Witness ==
    pc = "END" /\ executed # <<>>

ToolMessageIds ==
    LET toolMsgs == SelectSeq(messages, LAMBDA m : m.role = "tool")
    IN  [i \in 1..Len(toolMsgs) |-> toolMsgs[i].tool_call_id]

C3_ToolMessageAnswersPrecedingCall ==
    \A i \in 1..Len(messages) :
        messages[i].role = "tool" =>
            \E j \in 1..(i - 1) :
                /\ messages[j].role = "assistant"
                /\ \A k \in (j + 1)..(i - 1) : messages[k].role # "assistant"
                /\ \E c \in 1..Len(messages[j].tool_calls) :
                      messages[j].tool_calls[c].id = messages[i].tool_call_id

\* Tool messages of two rounds of calls are in the conversation.
C3_Witness ==
    /\ reasonCount = 2
    /\ Len(executed) >= 3
    /\ Last(messages).role = "tool"

\* C4: a turn makes at most 10 model invocations.
C4_TurnBounded ==
    reasonCount <= 10

\* C5: every step leaves the earlier messages as a prefix of the new ones.
C5_AppendOnly ==
    [][IsPrefix(messages, messages')]_vars

\* Both nodes have appended to the conversation the turn started with.
C5_Witness ==
    /\ Len(messages) >= initLen + 3
    /\ executed # <<>>

\* C6: no tool invocation ends with an exception leaving the tool.
C6_NoToolRaises ==
    \A i \in 1..Len(executed) : executed[i].outcome # "raised"

\* C7: a failed model call ends the turn at END with a plain assistant
\* message (the apology) as the last message.
C7_ModelFailureEndsInApology ==
    llmFailed => (pc = "END" /\ Len(messages) > initLen /\ IsPlainReply(Last(messages)))

\* ------------------------------------------------------ lead store claims

\* The label of a status, without its emoji.
StatusLabel(status) ==
    CASE status \in {"fire Hot", "garbled fire Hot"} -> "Hot"
      [] status \in {"star Qualified", "garbled star Qualified"} -> "Qualified"
      [] status \in {"clipboard Nurture", "garbled clipboard Nurture"} -> "Nurture"
      [] status \in {"memo Cold", "garbled ice Cold"} -> "Cold"
      [] OTHER -> status

StatusRank(status) ==
    CASE StatusLabel(status) = "Cold" -> 0
      [] StatusLabel(status) = "Nurture" -> 1
      [] StatusLabel(status) = "Qualified" -> 2
      [] StatusLabel(status) = "Hot" -> 3

\* C8: the status derived from a score s is Hot iff s >= 8.0, Qualified iff
\* 6.0 <= s < 8.0, Nurture iff 4.0 <= s < 6.0, Cold iff s < 4.0, and no
\* lower score gets a higher status.
C8_StatusThresholds ==
    statusCall.result # "none" =>
        LET s == statusCall.score
            label == StatusLabel(statusCall.result)
        IN  /\ label = "Hot" <=> s >= 80
            /\ label = "Qualified" <=> (60 <= s /\ s < 80)
            /\ label = "Nurture" <=> (40 <= s /\ s < 60)
            /\ label = "Cold" <=> s < 40
            /\ \A t \in ScoreDomain :
                  t <= s => StatusRank(ScoreToStatus(backend, t)) <= StatusRank(statusCall.result)

\* The score 8.0 itself was given, and came out Hot.
C8_Witness ==
    statusCall.score = 80 /\ StatusLabel(statusCall.result) = "Hot"

\* C9: while no caller has supplied a status, every stored lead's status is
\* the one derived from its current score.
C9_StatusFollowsScore ==
    ~statusGiven => \A l \in leads : l.status = ScoreToStatus(backend, l.lead_score)

\* C10: update_lead(id, fields) leaves every other lead as it was, keeps the
\* set of leads, changes in the lead with that id no field other than the
\* named ones and updated_at, and on success the named fields hold the
\* given values.
C10_PartialUpdate ==
    [][\A id \in LeadIds, kwargs \in KwargsSet :
          update_lead(id, kwargs) =>
              /\ \A l \in leads : l.id # id => l \in leads'
              /\ { l.id : l \in leads' } = { l.id : l \in leads }
              /\ Cardinality(leads') = Cardinality(leads)
              /\ \A l \in leads, m \in leads' :
                    (l.id = id /\ m.id = id) =>
                        /\ DOMAIN m = DOMAIN l
                        /\ \A c \in DOMAIN l :
                              c \notin (DOMAIN kwargs \cup {"updated_at"}) => m[c] = l[c]
                        /\ (lastResult'.kind = "bool" /\ lastResult'.value) =>
                              /\ m.updated_at = clock'
                              /\ \A c \in DOMAIN kwargs \ {"updated_at"} : m[c] = kwargs[c]
       ]_vars

\* Of two stored leads one was updated successfully after its creation.
C10_Witness ==
    /\ Cardinality(leads) = 2
    /\ lastResult.kind = "bool" /\ lastResult.value
    /\ \E l \in leads : l.updated_at > l.created_at /\ l.lead_score = 85 /\ l.status = "memo Cold"

\* C11: a lead created with create_lead and fetched with get_lead under the
\* returned id has every given field value as given (a status of None is
\* no given value: the fetched status is then the one derived from the
\* score); id, created_at and updated_at are the store's.
C11_RoundTrip ==
    [][\A a \in RoundTripArgs(backend) :
          create_lead(a) =>
              LET got == fetchone(leads', ReturnedId(lastResult'))
              IN  /\ got.kind = "lead"
                  /\ DOMAIN got.value = DOMAIN a \cup {"id", "created_at", "updated_at"}
                  /\ \A c \in DOMAIN a :
                        IF c = "status" /\ a[c] = NoneStatus
                        THEN got.value[c] = ScoreToStatus(backend, a.lead_score)
                        ELSE got.value[c] = a[c]
       ]_vars

\* get_lead has returned the second lead, created with every field given.
C11_Witness ==
    /\ lastResult.kind = "lead"
    /\ lastResult.value.id = 2
    /\ lastResult.value.meeting_id = "evt1"
    /\ lastResult.value.status = "VIP"
    /\ lastResult.value.lead_score = 85

\* --------------------------------------------------- lead scoring claims

Assessed ==
    fn = "assess_lead_with_llm" /\ result.kind # "pending"

\* C12: whatever the model returns, the score assess_lead_with_llm returns
\* lies within 0.0 and 10.0.
C12_ScoreInRange ==
    Assessed =>
        /\ result.kind = "dict"
        /\ 0 <= result.value.lead_score
        /\ result.value.lead_score <= MaxScore

\* A number above 10.0 has been scored 10.0, with the model's rationale.
C12_Witness ==
    /\ Assessed
    /\ args.out.lead_score.t = "number" /\ args.out.lead_score.n > MaxScore
    /\ result.value.lead_score = MaxScore
    /\ result.value.qualification_reason = "Decision maker"

\* A lead_score field that is neither a number nor the text of one.
MalformedScore(raw) ==
    \/ raw.t \in {"null", "list"}
    \/ raw.t = "string" /\ FloatOfText(raw.s).kind = "raised"

\* The failures of an assessment: the model call fails, the reply is no
\* JSON object, or a field of the object is malformed.
AssessmentFailed(out) ==
    \/ out.reply # "content"
    \/ out.json # "object"
    \/ out.summary = "null"
    \/ out.qualification_reason = "null"
    \/ MalformedScore(out.lead_score)

\* C13 as stated: on every failure of the assessment, a malformed field
\* included, the call returns the default (score 5.0, neutral rationale),
\* and it never raises.
C13_FailureGivesDefault ==
    Assessed =>
        /\ result.kind = "dict"
        /\ AssessmentFailed(args.out) => result = DefaultAssessment(args.raw_notes)

\* A malformed lead_score whose text has a first run of digits and dots
\* that is no number ("1..", "."), so that float() raises a second time.
UnreadableScore(raw) ==
    /\ MalformedScore(raw)
    /\ FirstRun(StrOf(raw)) # <<>>
    /\ ~IsUnsignedNumber(FirstRun(StrOf(raw)))

\* The failures that raise inside the try block.
AssessmentRaises(out) ==
    \/ out.reply # "content"
    \/ out.json # "object"
    \/ out.summary = "null"
    \/ out.qualification_reason = "null"
    \/ UnreadableScore(out.lead_score)

\* C13 amended: the call never raises; on every failure that raises inside
\* the try block it returns the default; any other malformed lead_score is
\* no failure: it is scored by the first run of digits and dots of its
\* text, 0.0 if there is none, under the model's own rationale.
C13_RaisingFailureGivesDefault ==
    Assessed =>
        /\ result.kind = "dict"
        /\ AssessmentRaises(args.out) => result = DefaultAssessment(args.raw_notes)
        /\ (MalformedScore(args.out.lead_score) /\ ~AssessmentRaises(args.out)) =>
              /\ result.value.qualification_reason # DefaultAssessment(args.raw_notes).value.qualification_reason
              /\ result.value.lead_score =
                    LET run == FirstRun(StrOf(args.out.lead_score))
                    IN  IF run = <<>> THEN 0 ELSE Clamp(Finite(UnsignedValue(run)))

\* The model call raised and the default came back, the notes as summary.
C13_Witness ==
    /\ Assessed
    /\ args.out.reply = "raises"
    /\ args.raw_notes # ""
    /\ result = DefaultAssessment(args.raw_notes)
    /\ result.value.lead_score = DefaultScore

\* ------------------------------------------------- calendar tool claims

\* C14: for every reference day and every named weekday the rewrite of
\* "next <weekday>" gives a date 1 to 7 days after the reference day that
\* falls on the named weekday, 7 days after it when the reference day is
\* that weekday; from Wednesday 2024-01-03 "next monday" gives 2024-01-08.
C14_NextWeekday ==
    (fn = "parse_datetime" /\ result.kind # "pending"
        /\ args.next /\ Lower(args.word) \in DOMAIN WEEKDAYS) =>
        LET date == result.value.text.date
            target == WEEKDAYS[Lower(args.word)]
        IN  /\ result.value.text.rewritten
            /\ date - args.ref \in 1..7
            /\ Weekday(date) = target
            /\ Weekday(args.ref) = target => date = args.ref + 7
            /\ (args.ref = 2 /\ Lower(args.word) = "monday") => date = 7
            /\ result.kind = "datetime" /\ args.dp = "parsed" => result.value.day = date

\* "next Monday 3pm" asked on a Monday was parsed to the Monday a week on.
C14_Witness ==
    /\ fn = "parse_datetime" /\ result.kind = "datetime"
    /\ args.next /\ args.word = "Monday" /\ args.rest = " 3pm"
    /\ Weekday(args.ref) = 0
    /\ result.value.day = args.ref + 7

DurationParsed ==
    fn = "parse_duration" /\ result.kind # "pending"

\* C15: a text of the combined form, H hours M minutes, yields H*60+M
\* minutes; "1h30m" and "1 hour 30 minutes" yield 90 minutes.
C15_CombinedForm ==
    (/\ DurationParsed
     /\ Len(args.words) = 4
     /\ IsDigits(args.words[1]) /\ Begins(Lower(args.words[2]), "h")
     /\ IsDigits(args.words[3]) /\ Begins(Lower(args.words[4]), "m")) =>
        /\ result.kind = "timedelta"
        /\ result.value = 60 * ((NumberValue(args.words[1]) \div 10) * 60
                                    + (NumberValue(args.words[3]) \div 10))

\* C16: the call returns what the first pattern of the list that matches
\* the text gives, and raises when no pattern matches; it returns no
\* duration for a text no pattern matches.
C16_FirstMatchOrError ==
    DurationParsed =>
        LET t == [i \in 1..Len(args.words) |-> Lower(args.words[i])]
        IN  /\ (\A i \in 1..4 : ~re_match(i, t).matched) <=> result.kind = "raised"
            /\ \A i \in 1..4 :
                  (re_match(i, t).matched /\ \A j \in 1..(i - 1) : ~re_match(j, t).matched) =>
                      result = Returned("timedelta", DurationOf(re_match(i, t)))

\* "xyz" was given and the call raised.
C16_Witness ==
    /\ DurationParsed
    /\ args.words = <<"xyz">>
    /\ result.kind = "raised"

\* The answer of the calendar service was read without an exception.
BusyListRead ==
    /\ fn = "check_availability" /\ result.kind # "pending"
    /\ args.busy.resp = "ok"
    /\ \A i \in 1..Len(args.busy.collection) : args.busy.collection[i].ok

\* The intervals of a sequence of slots, as pairs of instants.
Intervals(slots, from, to) ==
    { <<Instant(slots[i][from]), Instant(slots[i][to])>> : i \in 1..Len(slots) }

\* C17: a busy interval is reported as a conflict iff start < busy.end and
\* busy.start < end; 10:00-11:00 conflicts with busy 10:30-10:45 and not
\* with busy 11:00-12:00; intervals that touch do not conflict; the slot
\* is available iff no busy interval conflicts.
C17_HalfOpenConflicts ==
    BusyListRead =>
        LET start == Instant(args.start_dt)
            end == Instant(args.end_dt)
            busy == Intervals(args.busy.collection, "start_time", "end_time")
            reported == Intervals(result.value.conflicts, "start", "end")
        IN  /\ reported \subseteq busy
            /\ \A b \in busy : b \in reported <=> (start < b[2] /\ b[1] < end)
            /\ \A b \in busy : (b[2] = start \/ b[1] = end) => b \notin reported
            /\ (start = 40 /\ end = 44 /\ <<42, 43>> \in busy) => <<42, 43>> \in reported
            /\ (start = 40 /\ end = 44) => <<44, 48>> \notin reported
            /\ result.value.available <=> ~\E b \in busy : start < b[2] /\ b[1] < end
            /\ Len(result.value.conflicts) =
                    Cardinality({ i \in 1..Len(args.busy.collection) :
                        LET sl == args.busy.collection[i]
                        IN  start < Instant(sl.end_time) /\ Instant(sl.start_time) < end })

\* 10:00-11:00 was checked against busy 10:30-10:45 and busy 11:00-12:00:
\* the first alone was reported.
C17_Witness ==
    /\ BusyListRead
    /\ Instant(args.start_dt) = 40 /\ Instant(args.end_dt) = 44
    /\ Intervals(args.busy.collection, "start_time", "end_time") = {<<42, 43>>, <<44, 48>>}
    /\ ~result.value.available
    /\ Intervals(result.value.conflicts, "start", "end") = {<<42, 43>>}

\* ----------------------------------------------------- scheduling claims

\* The functions a trace names for the given outcome.
CallsWith(calls, outcomes) ==
    { calls[i].call : i \in { j \in 1..Len(calls) : calls[j].outcome \in outcomes } }

CallsOf(calls) ==
    { calls[i].call : i \in 1..Len(calls) }

\* C18: a scheduling call creates an event only after its availability
\* check, and only if the check said available; when the check reports a
\* conflict the call answers with what suggest_alternative_times found,
\* creates no event and captures no lead.
C18_BookOnlyIfAvailable ==
    [][/\ \A i \in 1..Len(trace') :
            trace'[i].call = "create_meeting_with_google_meet" =>
                \E j \in 1..(i - 1) : trace'[j] = Called("check_availability", "available")
       /\ events' # events => "check_availability" \in CallsWith(trace', {"available"})
       /\ "check_availability" \in CallsWith(trace', {"conflict"}) =>
            /\ result'.kind = "not_available"
            /\ result'.value.alternatives = args'.alternatives
            /\ result'.value.conflicts # <<>>
            /\ "suggest_alternative_times" \in CallsOf(trace')
            /\ "create_meeting_with_google_meet" \notin CallsOf(trace')
            /\ "auto_capture_meeting_lead" \notin CallsOf(trace')
            /\ events' = events
            /\ sheet' = sheet
      ]_vars

\* A request for a busy time was answered with alternatives, after an
\* earlier request had been booked.
C18_Witness ==
    /\ result.kind = "not_available"
    /\ "check_availability" \in CallsWith(trace, {"conflict"})
    /\ Cardinality(events) = 1

\* C19: no scheduling call deletes or changes an event; a call that has
\* created its event returns the confirmation with the details of the
\* booking whatever the capture of the lead did, the confirmation tells
\* the outcome of the capture, a failure included, and the event stands.
C19_BookingStands ==
    [][/\ events \subseteq events'
       /\ "create_meeting_with_google_meet" \in CallsWith(trace', {"event"}) =>
            /\ result'.kind = "scheduled"
            /\ result'.value.event \notin events
            /\ events' = events \cup {result'.value.event}
            /\ result'.value.event.attendee = args'.attendee_email
            /\ result'.value.event.start.wall = WallClock(args'.start.rest)
            /\ result'.value.duration_text = args'.duration
            /\ args'.capture \in {"failed", "raises"} <=> result'.value.lead_status.status = "failed"
            /\ args'.capture = "stored" <=> result'.value.lead_status.status = "captured"
            /\ args'.capture = "stored" <=> Len(sheet') = Len(sheet) + 1
      ]_vars

\* A second meeting was booked and confirmed although the capture of its
\* lead failed; no lead was ever stored.
C19_Witness ==
    /\ result.kind = "scheduled"
    /\ result.value.lead_status.status = "failed"
    /\ result.value.event \in events
    /\ Cardinality(events) = 2
    /\ sheet = <<>>

\* C20: when the start time or the duration cannot be parsed the call
\* returns the error and makes no availability query, creates no event
\* and captures no lead.
C20_ParseFailureTerminal ==
    [][(\/ parse_datetime(args'.start).kind = "raised"
        \/ parse_duration(args'.duration).kind = "raised") =>
            /\ result'.kind = "error"
            /\ result'.value \in {"parse_datetime", "parse_duration"}
            /\ CallsOf(trace') \subseteq {"parse_datetime", "parse_duration"}
            /\ "raised" = trace'[Len(trace')].outcome
            /\ events' = events
            /\ sheet' = sheet
      ]_vars

\* A call with the duration "xyz" returned the error, after an earlier
\* call had booked a meeting.
C20_Witness ==
    /\ result = Returned("error", "parse_duration")
    /\ args.duration.words = <<"xyz">>
    /\ Cardinality(events) = 1
    /\ Len(trace) = 2

\* ------------------------------------------------------ retrieval claims

\* The best-matching chunk of the search.
BestScore ==
    args.docs[1].score

\* C21: when the best-matching chunk of a query scores below the
\* configured threshold MIN_RELEVANCE, retriever_tool returns one of its
\* messages that found nothing (or, when a service raised, its error
\* message), composes no answer from the chunks and names no source.
C21_BelowThresholdNotFound ==
    (/\ fn = "retriever_tool"
     /\ result.kind # "pending"
     /\ args.docs # <<>>
     /\ BestScore < MIN_RELEVANCE) =>
        /\ result.kind \in {"nothing_found", "not_relevant", "error"}
        /\ result.value.context = <<>>
        /\ result.value.sources = {}

\* C27: the sources an answer of retriever_tool names are exactly the
\* sources of the chunks that are in the context the answer was composed
\* from.
C27_SourcesOfUsedChunks ==
    (fn = "retriever_tool" /\ result.kind = "answer") =>
        result.value.sources =
            { result.value.context[i].chunk.source : i \in 1..Len(result.value.context) }

\* ------------------------------------------------------ backend claims

\* C28: the two lead stores hold the same field values after the same
\* calls: while no caller has given a status of its own, the status of
\* every lead the store in use holds is the status either backend derives
\* from the score of that lead.
C28_BackendsAgree ==
    (fn = "none" /\ ~statusGiven) =>
        \A l \in leads :
            /\ l.status = ScoreToStatus("sqlite", l.lead_score)
            /\ l.status = ScoreToStatus("supabase", l.lead_score)

\* C30: in sequential use the engine is constructed at most once; a call
\* that finds the engine constructed neither replaces it nor initializes
\* again, and when that engine has no retriever, because its one
\* initialization raised or found no documents, the call returns the
\* message that the knowledge base is not available without asking the
\* store or the model, even if an initialization would now succeed.
C30_InitializedOnce ==
    [][/\ constructed' <= 1
       /\ instance = NoInstance =>
            /\ constructed' = constructed + 1
            /\ instance' = ProfessionalRAG(1, args'.init)
            /\ args'.init # "ready" => result'.kind = "not_available"
       /\ instance # NoInstance =>
            /\ instance' = instance
            /\ constructed' = constructed
            /\ trace'[1] = Called("get_rag_system", "cached")
            /\ instance.retriever = "None" =>
                 /\ result'.kind = "not_available"
                 /\ result'.value.sources = {}
                 /\ trace' = <<Called("get_rag_system", "cached")>>
      ]_vars

\* The first initialization failed; a later call, made when an
\* initialization would succeed, found the engine cached and returned the
\* message that the knowledge base is not available.
C30_Witness ==
    /\ fn = "retriever_tool"
    /\ constructed = 1
    /\ instance = ProfessionalRAG(1, "raised")
    /\ args.init = "ready"
    /\ result.kind = "not_available"
    /\ trace = <<Called("get_rag_system", "cached")>>

\* ------------------------------------------------------ singleton claims

\* C22: whatever the interleaving of the sessions that call an accessor
\* for the first time, the constructor runs at most once and the sessions
\* that have returned were all handed the one object the global holds.
C22_ConstructedOnce ==
    fn \in Accessors =>
        /\ constructed <= 1
        /\ \A s \in DOMAIN session :
             session[s].pc = "done" => session[s].got = instance

\* ------------------------------------------------------ scheduling claims, end to end

\* Every lead record the program keeps: the rows of the lead store and the
\* rows of the leads worksheet.
LeadRecords ==
    leads \cup { sheet[i] : i \in 1..Len(sheet) }

\* C23: after a scheduling call that has booked its meeting and reports
\* the lead as captured, a lead record exists with source "Meeting
\* Scheduled" and an event id as meeting_id.
C23_BookingLeavesLead ==
    (/\ fn = "schedule_by_natural_with_lead_capture"
     /\ result.kind = "scheduled"
     /\ result.value.lead_status.status = "captured") =>
        \E lead \in LeadRecords :
            /\ lead.source = "Meeting Scheduled"
            /\ lead.meeting_id \in Nat \ {0}

\* Where a trace names a function.
Positions(calls, call) ==
    { i \in 1..Len(calls) : calls[i].call = call }

\* C26: a scheduling call invokes the capture of the lead at most once,
\* and exactly once when its event was created, directly after the
\* creation; a row it stores carries the score of the qualification and
\* the id of the event just created; when the creation returns no event
\* the call reports the failure, invokes no capture and stores nothing.
C26_CaptureOnceAfterCreation ==
    [][LET captures == Positions(trace', "auto_capture_meeting_lead")
           created  == { i \in 1..Len(trace') :
                           trace'[i] = Called("create_meeting_with_google_meet", "event") }
       IN  /\ Cardinality(captures) <= 1
           /\ \A i \in captures : i = Len(trace') /\ (i - 1) \in created
           /\ created # {} =>
                /\ Cardinality(captures) = 1
                /\ result'.kind = "scheduled"
                /\ result'.value.event \in events' \ events
           /\ captures = {} => sheet' = sheet
           /\ Len(sheet') <= Len(sheet) + 1
           /\ Len(sheet') = Len(sheet) + 1 =>
                /\ SubSeq(sheet', 1, Len(sheet)) = sheet
                /\ Last(sheet').meeting_id = result'.value.event.id
                /\ Last(sheet').email = args'.attendee_email
                /\ Last(sheet').lead_score =
                       assess_lead_with_llm(args'.reply, args'.project_description).value.lead_score
           /\ Called("create_meeting_with_google_meet", "none") \in
                  { trace'[i] : i \in 1..Len(trace') } =>
                /\ result' = Returned("create_failed", 0)
                /\ captures = {}
                /\ events' = events
                /\ sheet' = sheet
      ]_vars

\* A second meeting was booked and its lead stored with the id of the
\* second event, the capture being the last call of the trace.
C26_Witness ==
    /\ result.kind = "scheduled"
    /\ Cardinality(events) = 2
    /\ result.value.event.id = 2
    /\ sheet # <<>>
    /\ Last(sheet).meeting_id = 2
    /\ Last(trace) = Called("auto_capture_meeting_lead", "captured")

\* The busy-time request of the call raised, or a slot of its answer
\* cannot be read.
QueryFailed(busy) ==
    busy.resp = "raises" \/ \E i \in 1..Len(busy.collection) : ~busy.collection[i].ok

\* C29: when the busy-time request or the reading of its answer fails,
\* check_availability reports the slot as available with no conflicts,
\* and a scheduling call whose start and duration were parsed goes on to
\* create the event, suggests no alternative, and books the slot when the
\* calendar creates the event.
C29_FailsOpen ==
    [][(/\ QueryFailed(args'.busy)
        /\ parse_datetime(args'.start).kind # "raised"
        /\ parse_duration(args'.duration).kind # "raised") =>
            /\ \A wall \in {40, 60} :
                  check_availability(Datetime(wall, 0), Datetime(wall + 4, 0), args'.busy)
                      = Returned("dict", [available |-> TRUE, conflicts |-> <<>>])
            /\ trace'[3] = Called("check_availability", "available")
            /\ trace'[4].call = "create_meeting_with_google_meet"
            /\ "suggest_alternative_times" \notin CallsOf(trace')
            /\ result'.kind # "not_available"
            /\ args'.create = "event" =>
                    /\ result'.kind = "scheduled"
                    /\ result'.value.event \in events' \ events
      ]_vars

\* A meeting was booked at a time the calendar reports as busy, because a
\* second slot of the answer could not be read.
C29_Witness ==
    /\ result.kind = "scheduled"
    /\ result.value.event \in events
    /\ Len(args.busy.collection) = 2
    /\ ~args.busy.collection[2].ok
    /\ Overlaps(result.value.event.start, result.value.event.end,
                [start |-> args.busy.collection[1].start_time,
                 end |-> args.busy.collection[1].end_time])

\* ------------------------------------------------------ alternative-times claims

Suggested ==
    /\ fn = "suggest_alternative_times"
    /\ result.kind # "pending"

\* C24: every slot suggest_alternative_times returns starts on a day from
\* Monday to Friday, at or after 09:00 and before 18:00.
C24_SlotsInBusinessHours ==
    Suggested =>
        \A i \in 1..Len(result.value.slots) :
            LET slot == result.value.slots[i]
            IN  /\ Weekday(slot.day) < 5
                /\ slot.wall >= OpeningHour * HourQuarters
                /\ slot.wall < ClosingHour * HourQuarters

\* The calendar holds every probed slot busy.
BusyAllDay ==
    /\ args.busy.resp = "ok"
    /\ Len(args.busy.collection) = 1
    /\ args.busy.collection[1].ok
    /\ args.busy.collection[1].start_time.wall = 0
    /\ args.busy.collection[1].end_time.wall >= 2 * DayQuarters

\* C25: the search ends after at most max_attempts availability probes
\* with at most num_suggestions slots, whatever the calendar answers; a
\* search that found no free probe returns the message that no
\* alternative time was found, and with every slot busy it makes exactly
\* max_attempts probes when a suggestion was asked for.
C25_SearchBounded ==
    Suggested =>
        /\ result.value.probes <= max_attempts
        /\ Len(result.value.slots) <= args.num_suggestions
        /\ Len(result.value.slots) <= result.value.probes
        /\ (args.parse = "parsed" /\ result.value.slots = <<>>) <=> result.kind = "none_found"
        /\ (args.parse = "parsed" /\ BusyAllDay) =>
                /\ result.kind = "none_found"
                /\ result.value.probes = IF args.num_suggestions > 0 THEN max_attempts ELSE 0

\* Three suggestions were asked for on a calendar that is busy all day:
\* the search gave up after max_attempts probes.
C25_Witness ==
    /\ Suggested
    /\ BusyAllDay
    /\ args.num_suggestions = DefaultSuggestions
    /\ result = Returned("none_found", [slots |-> <<>>, probes |-> max_attempts])

====
